---------------------------- MODULE Spec2Model ----------------------------
(***************************************************************************)
(* A model of openssl/src/x509/mod.rs: the X509Generator builder and its   *)
(* sign/request workflows, the Extensions collection, random_serial, the   *)
(* owned X509 handle (clone/drop), X509VerifyError::from_raw and the       *)
(* GeneralNames / GeneralName accessors.                                   *)
(***************************************************************************)
EXTENDS Integers, Sequences, FiniteSets, TLC

VARIABLES
    days,        \* X509Generator.days
    names,       \* X509Generator.names : Vec<(String, String)>
    extensions,  \* X509Generator.extensions.extensions : Vec<Extension>
    indexes,     \* X509Generator.extensions.indexes : HashMap<ExtensionType, usize>
    firstAdded,  \* history: the ExtensionTypes in the order each was first added
    lastAdd,     \* history: the add_extension call just made, or NoAdd
    supplied,    \* history: the name entries in the order the calls supplied them
    pc,          \* sign / request: the step to run next ("idle" between calls)
    mode,        \* which call is running: "sign" or "request"
    cert,        \* the native X509 object behind sign's local x509, or NoCert
    req,         \* the native X509_REQ object behind request's local req, or NoReq
    serial,      \* sign: the value random_serial returned, or NULL
    nameIdx,     \* sign: entries of the name iterator consumed so far
    extIdx,      \* sign: ExtensionsIter.current
    not_before,  \* sign: the local not_before (an Asn1Time), or NoTime
    not_after,   \* sign: the local not_after (an Asn1Time), or NoTime
    log,         \* history: the provider calls made by the running call, with outcome
    signRes,     \* the value sign returned to its caller
    result,      \* the value the running call returned to the user
    rsPc,        \* random_serial: "idle", "rand_bytes", "loop" or "done"
    rsBytes,     \* random_serial: the local bytes
    rsIdx,       \* random_serial: bytes of the loop consumed so far
    rsRes,       \* random_serial: the local res
    rsOut,       \* random_serial: the value returned
    refs,        \* X509 objects: the native reference count of each allocated object
    released,    \* X509 objects: how many times each object's memory was released
    handles,     \* owned X509 handles alive: handle id -> [obj, views]
    lastOp,      \* history: the last operation on a handle
    ctxError,    \* X509StoreContext: the error code stored in the native context
    veOut,       \* history: the last from_raw call, [arg, value]
    gnLive,      \* whether a GeneralNames value exists
    gnStack,     \* GeneralNames.stack: the entries of the native stack
    gnIdx,       \* GeneralNamesIter.idx of the current iterator
    gnYield,     \* history: what the current iterator has yielded so far
    gnIters,     \* history: number of iter() calls made
    gnOut,       \* history: the last get / next / accessor call and its value
    coOp,        \* codec and accessor operations: the one running, "none" between
    coArg,       \* the certificate, request or byte buffer it was called on
    coPos,       \* provider calls of the running operation made so far
    coCalls,     \* history: those provider calls, with outcome
    coRes,       \* the Result the operation returned
    now          \* the system clock, in seconds

genVars == <<days, names, extensions, indexes, firstAdded, lastAdd, supplied>>
signVars == <<pc, mode, cert, req, serial, nameIdx, extIdx, not_before, not_after,
              log, signRes, result>>
serialVars == <<rsPc, rsBytes, rsIdx, rsRes, rsOut>>
handleVars == <<refs, released, handles, lastOp>>
verifyVars == <<ctxError, veOut>>
gnVars == <<gnLive, gnStack, gnIdx, gnYield, gnIters, gnOut>>
codecVars == <<coOp, coArg, coPos, coCalls, coRes>>
otherVars == <<serialVars, handleVars, verifyVars, gnVars, codecVars, now>>
vars == <<genVars, signVars, otherVars>>

-----------------------------------------------------------------------------
(* Bounds and input sets *)

\* longest list of name entries the builder is driven to
MaxNames == 2

\* the ExtensionTypes the builder is driven with
ExtTypes == {"KeyUsage", "SubjectAltName", "OtherStr"}

\* the payloads an Extension of one type is given
ExtVals == {1, 2}

Extension == [type : ExtTypes, val : ExtVals]

\* (attr_type, attr_value) pairs given to add_name / add_names
NameEntries == {<<"CN", "example.com">>, <<"O", "Corp">>, <<"OU", "nul byte">>}

\* the strings among them that hold an interior 0 byte
NulStrings == {"nul byte"}

\* day counts given to set_valid_period
DayInputs == {730}

NoAdd == [called |-> FALSE]

-----------------------------------------------------------------------------
(* Extensions *)

\* Extension::get_type
get_type(ext) == ext.type

\* Extensions::new
Extensions_new == [extensions |-> <<>>, indexes |-> <<>>]

\* a slip: the index map is never consulted, every add pushes
Extensions_add_push(self, ext) ==
    [extensions |-> Append(self.extensions, ext),
     indexes    |-> [t \in DOMAIN self.indexes \cup {get_type(ext)} |->
                        IF t = get_type(ext) THEN Len(self.extensions)
                        ELSE self.indexes[t]]]

\* a slip: a replaced extension is moved to the end instead of kept in place
Extensions_add_move(self, ext) ==
    LET ext_type == get_type(ext)
        kept == SelectSeq(self.extensions, LAMBDA e : get_type(e) # ext_type)
        new  == Append(kept, ext)
    IN  [extensions |-> new,
         indexes    |-> [t \in {get_type(new[i]) : i \in 1..Len(new)} |->
                            (CHOOSE i \in 1..Len(new) : get_type(new[i]) = t) - 1]]

\* a slip: the position recorded for a new type is the length after the push
Extensions_add_len(self, ext) ==
    LET ext_type == get_type(ext)
    IN  IF ext_type \in DOMAIN self.indexes
        THEN [self EXCEPT !.extensions[self.indexes[ext_type] + 1] = ext]
        ELSE LET pushed == Append(self.extensions, ext)
             IN  [extensions |-> pushed,
                  indexes    |-> [t \in DOMAIN self.indexes \cup {ext_type} |->
                                     IF t = ext_type THEN Len(pushed)
                                     ELSE self.indexes[t]]]

\* Extensions::add; positions in indexes are 0-based as in the Vec
Extensions_add(self, ext) ==
    LET ext_type == get_type(ext)
    IN  IF ext_type \in DOMAIN self.indexes
        THEN [self EXCEPT !.extensions[self.indexes[ext_type] + 1] = ext]
        ELSE LET pushed == Append(self.extensions, ext)
             IN  [extensions |-> pushed,
                  indexes    |-> [t \in DOMAIN self.indexes \cup {ext_type} |->
                                     IF t = ext_type THEN Len(pushed) - 1
                                     ELSE self.indexes[t]]]

\* add_extensions' loop: add applied to each element in turn
RECURSIVE Extensions_add_all(_, _)
Extensions_add_all(self, exts) ==
    IF exts = <<>> THEN self
    ELSE Extensions_add_all(Extensions_add(self, Head(exts)), Tail(exts))

\* history: the order in which distinct types were first added
RECURSIVE FirstAddedAfter(_, _)
FirstAddedAfter(order, exts) ==
    IF exts = <<>> THEN order
    ELSE LET t == Head(exts).type
             seen == {order[i] : i \in 1..Len(order)}
         IN  FirstAddedAfter(IF t \in seen THEN order ELSE Append(order, t), Tail(exts))

-----------------------------------------------------------------------------
(* c_long arithmetic of random_serial; a c_long is LongBytes bytes wide *)

\* mem::size_of::<c_long>(), scaled down
LongBytes == 2

LongBits == 8 * LongBytes

RECURSIVE Pow2(_)
Pow2(n) == IF n = 0 THEN 1 ELSE 2 * Pow2(n - 1)

\* `x as c_ulong`: the bit pattern of a c_long read as unsigned
as_c_ulong(x) == x % Pow2(LongBits)

\* `u as c_long`: the bit pattern read as two's complement
as_c_long(u) ==
    LET w == u % Pow2(LongBits)
    IN  IF w >= Pow2(LongBits - 1) THEN w - Pow2(LongBits) ELSE w

\* bitwise and / or of two non-negative integers
RECURSIVE BitAnd(_, _)
BitAnd(a, b) ==
    IF a = 0 \/ b = 0 THEN 0
    ELSE 2 * BitAnd(a \div 2, b \div 2) + (IF a % 2 = 1 /\ b % 2 = 1 THEN 1 ELSE 0)

RECURSIVE BitOr(_, _)
BitOr(a, b) ==
    IF a = 0 THEN b
    ELSE IF b = 0 THEN a
    ELSE 2 * BitOr(a \div 2, b \div 2) + (IF a % 2 = 1 \/ b % 2 = 1 THEN 1 ELSE 0)

\* `res << k` on a c_long: the bits shifted out are lost
shl(x, k) == as_c_long((as_c_ulong(x) % Pow2(LongBits - k)) * Pow2(k))

\* a slip: the byte is added without the shift
serial_step_noshift(res, b) ==
    as_c_long(BitOr(as_c_ulong(res), BitAnd(b, 255)))

\* one turn of random_serial's loop: res = res << 8; res |= (*b as c_long) & 0xff
serial_step(res, b) ==
    as_c_long(BitOr(as_c_ulong(shl(res, 8)), BitAnd(b, 255)))

\* a slip: the value is returned without clearing the high bit
serial_finish_noshift(res) == res

\* random_serial's return value: ((res as c_ulong) >> 1) as c_long
serial_finish(res) == as_c_long(as_c_ulong(res) \div 2)

RECURSIVE serial_fold(_, _)
serial_fold(res, bytes) ==
    IF bytes = <<>> THEN res
    ELSE serial_fold(serial_step(res, Head(bytes)), Tail(bytes))

\* random_serial on the buffer rand_bytes filled
random_serial(bytes) == serial_finish(serial_fold(0, bytes))

-----------------------------------------------------------------------------
(* X509Generator: the builder *)

NULL == "NULL"
NoCert == [live |-> FALSE]
NoReq == [live |-> FALSE]
NoResult == [status |-> "none"]
Ok(kind) == [status |-> "Ok", kind |-> kind]
Err(step) == [status |-> "Err", err |-> step]
Panic == [status |-> "Panic"]

\* no Asn1Time value: the local is not initialised yet
NoTime == [made |-> FALSE, time |-> 0, owned |-> FALSE, freed |-> 0]

\* 60 * 60 * 24, the factor of Asn1Time::days_from_now
SecondsPerDay == 86400

\* X509Generator::new; no call is running
Init ==
    /\ days = 365
    /\ names = <<>>
    /\ extensions = Extensions_new.extensions
    /\ indexes = Extensions_new.indexes
    /\ firstAdded = <<>>
    /\ lastAdd = NoAdd
    /\ supplied = <<>>
    /\ pc = "idle"
    /\ mode = "none"
    /\ cert = NoCert
    /\ req = NoReq
    /\ serial = NULL
    /\ nameIdx = 0
    /\ extIdx = 0
    /\ not_before = NoTime
    /\ not_after = NoTime
    /\ log = <<>>
    /\ signRes = NoResult
    /\ result = NoResult
    /\ rsPc = "idle"
    /\ rsBytes = <<>>
    /\ rsIdx = 0
    /\ rsRes = 0
    /\ rsOut = NoResult
    /\ refs = <<>>
    /\ released = <<>>
    /\ handles = <<>>
    /\ lastOp = [op |-> "none"]
    /\ ctxError = 0
    /\ veOut = [called |-> FALSE]
    /\ gnLive = FALSE
    /\ gnStack = <<>>
    /\ gnIdx = 0
    /\ gnYield = <<>>
    /\ gnIters = 0
    /\ gnOut = [op |-> "none"]
    /\ coOp = "none"
    /\ coArg = 0
    /\ coPos = 0
    /\ coCalls = <<>>
    /\ coRes = NoResult
    /\ now = 0

\* self.names.push((attr_type, attr_value))
names_push(v, e) == Append(v, e)

\* a slip: the new entries are put in front of the ones already supplied
names_extend_front(v, attrs) == attrs \o v

\* self.names.extend(attrs)
names_extend(v, attrs) == v \o attrs

\* X509Generator::set_valid_period
set_valid_period ==
    \E d \in DayInputs :
        /\ pc = "idle"
        /\ days' = d
        /\ lastAdd' = NoAdd
        /\ UNCHANGED <<names, supplied, extensions, indexes, firstAdded, signVars, otherVars>>

\* X509Generator::add_name
add_name ==
    \E e \in NameEntries :
        /\ pc = "idle"
        /\ Len(names) < MaxNames
        /\ names' = names_push(names, e)
        /\ supplied' = Append(supplied, e)
        /\ lastAdd' = NoAdd
        /\ UNCHANGED <<days, extensions, indexes, firstAdded, signVars, otherVars>>

\* X509Generator::add_names
add_names ==
    \E n \in 0..MaxNames : \E attrs \in [1..n -> NameEntries] :
        /\ pc = "idle"
        /\ Len(names) + n <= MaxNames
        /\ names' = names_extend(names, attrs)
        /\ supplied' = supplied \o attrs
        /\ lastAdd' = NoAdd
        /\ UNCHANGED <<days, extensions, indexes, firstAdded, signVars, otherVars>>

\* X509Generator::add_extension
add_extension ==
    \E ext \in Extension :
        LET r == Extensions_add([extensions |-> extensions, indexes |-> indexes], ext)
        IN  /\ pc = "idle"
            /\ extensions' = r.extensions
            /\ indexes' = r.indexes
            /\ firstAdded' = FirstAddedAfter(firstAdded, <<ext>>)
            /\ lastAdd' = [called |-> TRUE, ext |-> ext,
                           existed |-> \E i \in 1..Len(extensions) :
                                           extensions[i].type = ext.type]
            /\ UNCHANGED <<days, names, supplied, signVars, otherVars>>

\* X509Generator::add_extensions
add_extensions ==
    \E n \in 0..2 : \E exts \in [1..n -> Extension] :
        LET r == Extensions_add_all([extensions |-> extensions, indexes |-> indexes], exts)
        IN  /\ pc = "idle"
            /\ extensions' = r.extensions
            /\ indexes' = r.indexes
            /\ firstAdded' = FirstAddedAfter(firstAdded, exts)
            /\ lastAdd' = NoAdd
            /\ UNCHANGED <<days, names, supplied, signVars, otherVars>>

-----------------------------------------------------------------------------
(* X509Generator::sign, one action per provider call; each call either
   succeeds or reports failure, and try! returns on failure, dropping x509 *)

\* the buffers rand_bytes is driven to return inside sign
SignSerialBuffers == {[i \in 1..LongBytes |-> 0], [i \in 1..LongBytes |-> 255]}

\* the object X509_new allocates
FreshCert ==
    [live |-> TRUE, version |-> 0, serial |-> 0, notBefore |-> NULL, notAfter |-> NULL,
     pubkey |-> NULL, subject |-> <<>>, issuer |-> NULL, exts |-> NULL, signature |-> NULL]

\* a slip: the default entry is always added, before the supplied ones
name_iter_chain == <<<<"CN", "rust-openssl">>>> \o names

\* the name entries sign iterates over: the default when none were supplied
name_iter == IF Len(names) = 0 THEN <<<<"CN", "rust-openssl">>>> ELSE names

\* CString::new(..).unwrap() panics on an interior 0 byte
has_nul(entry) == entry[1] \in NulStrings \/ entry[2] \in NulStrings

\* a slip: request reports an error of its own instead of the one sign returned
request_match_fresh(r) == IF r.status = "Ok" THEN NoResult ELSE Err("request")

\* request's match on sign's return value: Err(x) => return Err(x)
request_match(r) == IF r.status = "Ok" THEN NoResult ELSE r

\* Asn1Time::days_from_now(days): the clock is read when the call is made
Asn1Time_days_from_now(d) ==
    [made |-> TRUE, time |-> now + d * SecondsPerDay, owned |-> TRUE, freed |-> 0]

\* Drop for Asn1Time at the end of its scope: ASN1_TIME_free on a value the
\* local still owns
Asn1Time_drop(t) ==
    IF t.owned THEN [t EXCEPT !.owned = FALSE, !.freed = @ + 1] ELSE t

\* a slip: the value stays owned by the local after the assignment
mem_forget_none(t) == t

\* mem::forget(t): the local gives the value up without running Drop
mem_forget(t) == [t EXCEPT !.owned = FALSE]

\* sign returns r to its caller: the user, or request; the locals not_before
\* and not_after go out of scope
sign_return(r) ==
    /\ not_before' = Asn1Time_drop(not_before)
    /\ not_after' = Asn1Time_drop(not_after)
    /\ signRes' = r
    /\ result' = IF mode = "sign" THEN r ELSE request_match(r)
    /\ pc' = IF mode = "request" /\ r.status = "Ok" THEN "X509_to_X509_REQ" ELSE "done"

\* try! on a failed call of sign: the error is returned and x509 is dropped
sign_fail(step) ==
    /\ log' = Append(log, <<step, FALSE>>)
    /\ cert' = NoCert
    /\ sign_return(Err(step))
    /\ UNCHANGED <<mode, req, serial, nameIdx, extIdx>>

\* a successful call of sign that leaves the certificate as c
sign_step(step, c, next) ==
    /\ log' = Append(log, <<step, TRUE>>)
    /\ cert' = c
    /\ pc' = next
    /\ UNCHANGED <<mode, req, serial, nameIdx, extIdx, signRes, result>>

\* such a call that does not touch the two time values
sign_pass(step, c, next) ==
    /\ sign_step(step, c, next)
    /\ UNCHANGED <<not_before, not_after>>

\* the user calls sign(&self, p_key)
sign_call ==
    /\ pc = "idle"
    /\ pc' = "X509_new"
    /\ mode' = "sign"
    /\ lastAdd' = NoAdd
    /\ UNCHANGED <<days, names, supplied, extensions, indexes, firstAdded, otherVars>>
    /\ UNCHANGED <<cert, req, serial, nameIdx, extIdx, log, signRes, result>>
    /\ UNCHANGED <<not_before, not_after>>

\* the user calls request(&self, p_key), which calls sign first
request_call ==
    /\ pc = "idle"
    /\ pc' = "X509_new"
    /\ mode' = "request"
    /\ lastAdd' = NoAdd
    /\ UNCHANGED <<days, names, supplied, extensions, indexes, firstAdded, otherVars>>
    /\ UNCHANGED <<cert, req, serial, nameIdx, extIdx, log, signRes, result>>
    /\ UNCHANGED <<not_before, not_after>>

\* let x509 = X509::from_ptr(try!(cvt_p(ffi::X509_new())))
X509_new ==
    /\ pc = "X509_new"
    /\ \/ sign_pass("X509_new", FreshCert, "X509_set_version")
       \/ sign_fail("X509_new")
    /\ UNCHANGED <<genVars, otherVars>>

\* try!(cvt(ffi::X509_set_version(x509.as_ptr(), 2)))
X509_set_version ==
    /\ pc = "X509_set_version"
    /\ \/ sign_pass("X509_set_version", [cert EXCEPT !.version = 2], "random_serial")
       \/ sign_fail("X509_set_version")
    /\ UNCHANGED <<genVars, otherVars>>

\* try!(X509Generator::random_serial()), the argument of ASN1_INTEGER_set
sign_random_serial ==
    /\ pc = "random_serial"
    /\ \/ \E bytes \in SignSerialBuffers :
            /\ log' = Append(log, <<"rand_bytes", TRUE>>)
            /\ serial' = random_serial(bytes)
            /\ pc' = "ASN1_INTEGER_set"
            /\ UNCHANGED <<cert, mode, req, nameIdx, extIdx, signRes, result>>
            /\ UNCHANGED <<not_before, not_after>>
       \/ sign_fail("rand_bytes")
    /\ UNCHANGED <<genVars, otherVars>>

\* try!(cvt(ffi::ASN1_INTEGER_set(ffi::X509_get_serialNumber(..), serial)))
ASN1_INTEGER_set ==
    /\ pc = "ASN1_INTEGER_set"
    /\ \/ sign_pass("ASN1_INTEGER_set", [cert EXCEPT !.serial = serial], "days_from_now_0")
       \/ sign_fail("ASN1_INTEGER_set")
    /\ UNCHANGED <<genVars, otherVars>>

\* let not_before = try!(Asn1Time::days_from_now(0))
days_from_now_0 ==
    /\ pc = "days_from_now_0"
    /\ \/ /\ sign_step("days_from_now_0", cert, "days_from_now_days")
          /\ not_before' = Asn1Time_days_from_now(0)
          /\ UNCHANGED not_after
       \/ sign_fail("days_from_now_0")
    /\ UNCHANGED <<genVars, otherVars>>

\* let not_after = try!(Asn1Time::days_from_now(self.days))
days_from_now_days ==
    /\ pc = "days_from_now_days"
    /\ \/ /\ sign_step("days_from_now_days", cert, "X509_set_notBefore")
          /\ not_after' = Asn1Time_days_from_now(days)
          /\ UNCHANGED not_before
       \/ sign_fail("days_from_now_days")
    /\ UNCHANGED <<genVars, otherVars>>

\* try!(cvt(X509_set_notBefore(x509.as_ptr(), not_before.as_ptr())));
\* mem::forget(not_before)
X509_set_notBefore ==
    /\ pc = "X509_set_notBefore"
    /\ \/ /\ sign_step("X509_set_notBefore", [cert EXCEPT !.notBefore = not_before.time],
                       "X509_set_notAfter")
          /\ not_before' = mem_forget(not_before)
          /\ UNCHANGED not_after
       \/ sign_fail("X509_set_notBefore")
    /\ UNCHANGED <<genVars, otherVars>>

\* try!(cvt(X509_set_notAfter(x509.as_ptr(), not_after.as_ptr())));
\* mem::forget(not_after)
X509_set_notAfter ==
    /\ pc = "X509_set_notAfter"
    /\ \/ /\ sign_step("X509_set_notAfter", [cert EXCEPT !.notAfter = not_after.time],
                       "X509_set_pubkey")
          /\ not_after' = mem_forget(not_after)
          /\ UNCHANGED not_before
       \/ sign_fail("X509_set_notAfter")
    /\ UNCHANGED <<genVars, otherVars>>

\* a slip: the return value of X509_set_pubkey is not looked at
X509_set_pubkey_unchecked ==
    /\ pc = "X509_set_pubkey"
    /\ \/ sign_pass("X509_set_pubkey", [cert EXCEPT !.pubkey = "p_key"],
                    "X509_get_subject_name")
       \/ /\ log' = Append(log, <<"X509_set_pubkey", FALSE>>)
          /\ pc' = "X509_get_subject_name"
          /\ UNCHANGED <<cert, mode, req, serial, nameIdx, extIdx, signRes, result>>
          /\ UNCHANGED <<not_before, not_after>>
    /\ UNCHANGED <<genVars, otherVars>>

\* try!(cvt(ffi::X509_set_pubkey(x509.as_ptr(), p_key.as_ptr())))
X509_set_pubkey ==
    /\ pc = "X509_set_pubkey"
    /\ \/ sign_pass("X509_set_pubkey", [cert EXCEPT !.pubkey = "p_key"],
                    "X509_get_subject_name")
       \/ sign_fail("X509_set_pubkey")
    /\ UNCHANGED <<genVars, otherVars>>

\* let name = try!(cvt_p(ffi::X509_get_subject_name(x509.as_ptr())))
X509_get_subject_name ==
    /\ pc = "X509_get_subject_name"
    /\ \/ sign_pass("X509_get_subject_name", cert, "add_name_internal")
       \/ sign_fail("X509_get_subject_name")
    /\ UNCHANGED <<genVars, otherVars>>

\* one turn of `for (key, val) in iter`: add_name_internal(name, &key, &val)
add_name_internal ==
    /\ pc = "add_name_internal"
    /\ LET entry == name_iter[nameIdx + 1]
           last  == nameIdx + 1 = Len(name_iter)
       IN  \/ /\ has_nul(entry)
              /\ log' = log
              /\ cert' = NoCert
              /\ signRes' = Panic
              /\ result' = Panic
              /\ pc' = "done"
              /\ not_before' = Asn1Time_drop(not_before)
              /\ not_after' = Asn1Time_drop(not_after)
              /\ UNCHANGED <<mode, req, serial, nameIdx, extIdx>>
           \/ /\ ~has_nul(entry)
              /\ log' = Append(log, <<"X509_NAME_add_entry_by_txt", TRUE>>)
              /\ cert' = [cert EXCEPT !.subject = Append(@, entry)]
              /\ nameIdx' = nameIdx + 1
              /\ pc' = IF last THEN "X509_set_issuer_name" ELSE "add_name_internal"
              /\ UNCHANGED <<mode, req, serial, extIdx, signRes, result>>
              /\ UNCHANGED <<not_before, not_after>>
           \/ /\ ~has_nul(entry)
              /\ sign_fail("X509_NAME_add_entry_by_txt")
    /\ UNCHANGED <<genVars, otherVars>>

\* ExtensionsIter::next returns None: the loop over the extensions is over
iter_done(current) == ~(current < Len(extensions))

\* try!(cvt(ffi::X509_set_issuer_name(x509.as_ptr(), name)))
X509_set_issuer_name ==
    /\ pc = "X509_set_issuer_name"
    /\ \/ sign_pass("X509_set_issuer_name", [cert EXCEPT !.issuer = cert.subject],
                    IF iter_done(extIdx) THEN "X509_sign" ELSE "add_extension_internal")
       \/ sign_fail("X509_set_issuer_name")
    /\ UNCHANGED <<genVars, otherVars>>

\* a slip: the extension is put at the front of the stack (loc 0, not -1)
X509_add_ext_front(c, ext) ==
    [c EXCEPT !.exts = IF @ = NULL THEN <<ext>> ELSE <<ext>> \o @]

\* X509_add_ext(x509, ext, -1): the stack is created on the first push
X509_add_ext(c, ext) ==
    [c EXCEPT !.exts = IF @ = NULL THEN <<ext>> ELSE Append(@, ext)]

\* one turn of `for (exttype, ext) in self.extensions.iter()`:
\* add_extension_internal(x509, &exttype, &ext.to_string())
add_extension_internal ==
    /\ pc = "add_extension_internal"
    /\ LET ext == extensions[extIdx + 1]
       IN  \/ /\ log' = log \o <<<<"X509V3_EXT_conf", TRUE>>, <<"X509_add_ext", TRUE>>>>
              /\ cert' = X509_add_ext(cert, ext)
              /\ extIdx' = extIdx + 1
              /\ pc' = IF iter_done(extIdx + 1) THEN "X509_sign"
                       ELSE "add_extension_internal"
              /\ UNCHANGED <<mode, req, serial, nameIdx, signRes, result>>
              /\ UNCHANGED <<not_before, not_after>>
           \/ sign_fail("X509V3_EXT_conf")
           \/ /\ log' = log \o <<<<"X509V3_EXT_conf", TRUE>>, <<"X509_add_ext", FALSE>>>>
              /\ cert' = NoCert
              /\ sign_return(Err("X509_add_ext"))
              /\ UNCHANGED <<mode, req, serial, nameIdx, extIdx>>
    /\ UNCHANGED <<genVars, otherVars>>

\* try!(cvt(ffi::X509_sign(x509.as_ptr(), p_key.as_ptr(), hash_fn))); Ok(x509)
X509_sign ==
    /\ pc = "X509_sign"
    /\ \/ /\ log' = Append(log, <<"X509_sign", TRUE>>)
          /\ cert' = [cert EXCEPT !.signature = "p_key"]
          /\ sign_return(Ok("X509"))
          /\ UNCHANGED <<mode, req, serial, nameIdx, extIdx>>
       \/ sign_fail("X509_sign")
    /\ UNCHANGED <<genVars, otherVars>>

-----------------------------------------------------------------------------
(* X509Generator::request after sign returned Ok(cert) *)

\* compat::X509_get0_extensions: the certificate's extension stack, NULL when
\* none was ever pushed (cert_info itself is allocated by X509_new)
X509_get0_extensions(c) == c.exts

\* try! on a failed call of request: cert and req (if made) are dropped
request_fail(step) ==
    /\ log' = Append(log, <<step, FALSE>>)
    /\ cert' = NoCert
    /\ req' = NoReq
    /\ result' = Err(step)
    /\ pc' = "done"
    /\ UNCHANGED <<mode, serial, nameIdx, extIdx, not_before, not_after, signRes>>

\* a successful call of request that leaves the CSR as r
request_pass(step, r, next) ==
    /\ log' = Append(log, <<step, TRUE>>)
    /\ req' = r
    /\ pc' = next
    /\ UNCHANGED <<mode, cert, serial, nameIdx, extIdx, signRes, result>>
    /\ UNCHANGED <<not_before, not_after>>

\* let req = try!(cvt_p(ffi::X509_to_X509_REQ(cert.as_ptr(), null, null)));
\* let exts = compat::X509_get0_extensions(cert.as_ptr()); if exts != null ..
X509_to_X509_REQ ==
    /\ pc = "X509_to_X509_REQ"
    /\ \/ request_pass("X509_to_X509_REQ",
                       [live |-> TRUE, subject |-> cert.subject, pubkey |-> cert.pubkey,
                        exts |-> NULL, signature |-> NULL],
                       IF X509_get0_extensions(cert) # NULL
                       THEN "X509_REQ_add_extensions" ELSE "X509_REQ_sign")
       \/ request_fail("X509_to_X509_REQ")
    /\ UNCHANGED <<genVars, otherVars>>

\* try!(cvt(ffi::X509_REQ_add_extensions(req.as_ptr(), exts)))
X509_REQ_add_extensions ==
    /\ pc = "X509_REQ_add_extensions"
    /\ \/ request_pass("X509_REQ_add_extensions",
                       [req EXCEPT !.exts = X509_get0_extensions(cert)], "X509_REQ_sign")
       \/ request_fail("X509_REQ_add_extensions")
    /\ UNCHANGED <<genVars, otherVars>>

\* try!(cvt(ffi::X509_REQ_sign(req.as_ptr(), p_key.as_ptr(), hash_fn))); Ok(req);
\* cert goes out of scope
X509_REQ_sign ==
    /\ pc = "X509_REQ_sign"
    /\ \/ /\ log' = Append(log, <<"X509_REQ_sign", TRUE>>)
          /\ req' = [req EXCEPT !.signature = "p_key"]
          /\ cert' = NoCert
          /\ result' = Ok("X509Req")
          /\ pc' = "done"
          /\ UNCHANGED <<mode, serial, nameIdx, extIdx, not_before, not_after, signRes>>
       \/ request_fail("X509_REQ_sign")
    /\ UNCHANGED <<genVars, otherVars>>

\* the caller drops what the call returned; the generator can be used again
drop_result ==
    /\ pc = "done"
    /\ pc' = "idle"
    /\ mode' = "none"
    /\ cert' = NoCert
    /\ req' = NoReq
    /\ serial' = NULL
    /\ nameIdx' = 0
    /\ extIdx' = 0
    /\ not_before' = NoTime
    /\ not_after' = NoTime
    /\ log' = <<>>
    /\ signRes' = NoResult
    /\ result' = NoResult
    /\ UNCHANGED <<genVars, otherVars>>

Next ==
    \/ set_valid_period
    \/ add_name
    \/ add_names
    \/ add_extension
    \/ add_extensions
    \/ sign_call
    \/ request_call
    \/ X509_new
    \/ X509_set_version
    \/ sign_random_serial
    \/ ASN1_INTEGER_set
    \/ days_from_now_0
    \/ days_from_now_days
    \/ X509_set_notBefore
    \/ X509_set_notAfter
    \/ X509_set_pubkey
    \/ X509_get_subject_name
    \/ add_name_internal
    \/ X509_set_issuer_name
    \/ add_extension_internal
    \/ X509_sign
    \/ X509_to_X509_REQ
    \/ X509_REQ_add_extensions
    \/ X509_REQ_sign
    \/ drop_result

Spec == Init /\ [][Next]_vars

-----------------------------------------------------------------------------
(* X509Generator::random_serial, step by step *)

\* the byte values rand_bytes is driven to write
ByteSamples == {0, 1, 2, 127, 128, 255}

\* a caller enters random_serial: let mut bytes = vec![0; len]
rs_call ==
    /\ rsPc = "idle"
    /\ rsPc' = "rand_bytes"
    /\ rsBytes' = [i \in 1..LongBytes |-> 0]
    /\ UNCHANGED <<rsIdx, rsRes, rsOut>>
    /\ UNCHANGED <<genVars, signVars, handleVars, verifyVars, gnVars, codecVars, now>>

\* try!(rand_bytes(&mut bytes)); let mut res = 0
rs_rand_bytes ==
    /\ rsPc = "rand_bytes"
    /\ \/ \E buf \in [1..LongBytes -> ByteSamples] :
            /\ rsBytes' = buf
            /\ rsRes' = 0
            /\ rsIdx' = 0
            /\ rsPc' = "loop"
            /\ UNCHANGED rsOut
       \/ /\ rsOut' = Err("rand_bytes")
          /\ rsPc' = "done"
          /\ UNCHANGED <<rsBytes, rsIdx, rsRes>>
    /\ UNCHANGED <<genVars, signVars, handleVars, verifyVars, gnVars, codecVars, now>>

\* one turn of `for b in bytes.iter()`
rs_loop ==
    /\ rsPc = "loop"
    /\ rsIdx < Len(rsBytes)
    /\ rsRes' = serial_step(rsRes, rsBytes[rsIdx + 1])
    /\ rsIdx' = rsIdx + 1
    /\ UNCHANGED <<rsPc, rsBytes, rsOut>>
    /\ UNCHANGED <<genVars, signVars, handleVars, verifyVars, gnVars, codecVars, now>>

\* Ok(((res as c_ulong) >> 1) as c_long)
rs_return ==
    /\ rsPc = "loop"
    /\ rsIdx = Len(rsBytes)
    /\ rsOut' = [status |-> "Ok", val |-> serial_finish(rsRes)]
    /\ rsPc' = "done"
    /\ UNCHANGED <<rsBytes, rsIdx, rsRes>>
    /\ UNCHANGED <<genVars, signVars, handleVars, verifyVars, gnVars, codecVars, now>>

\* the caller takes the value
rs_done ==
    /\ rsPc = "done"
    /\ rsPc' = "idle"
    /\ rsBytes' = <<>>
    /\ rsIdx' = 0
    /\ rsRes' = 0
    /\ rsOut' = NoResult
    /\ UNCHANGED <<genVars, signVars, handleVars, verifyVars, gnVars, codecVars, now>>

NextSerial == rs_call \/ rs_rand_bytes \/ rs_loop \/ rs_return \/ rs_done

SpecSerial == Init /\ [][NextSerial]_vars

-----------------------------------------------------------------------------
(* The owned handle X509: from_ptr, Deref, Clone, Drop *)

\* native X509 objects that can be allocated, owned handles that can be alive
\* together, and borrowed views of one handle that can be alive together
MaxObjs == 2
MaxHandles == 3
MaxViews == 1

Objs == 1..MaxObjs
HandleIds == 1..MaxHandles

\* the owned handles that refer to object o
OwnersOf(o) == {h \in DOMAIN handles : handles[h].obj = o}

\* X509::from_ptr on a pointer the provider just returned: the new object
\* starts with one reference, held by the new handle h
from_ptr_new(h, o, how) ==
    /\ refs' = [x \in DOMAIN refs \cup {o} |-> IF x = o THEN 1 ELSE refs[x]]
    /\ released' = [x \in DOMAIN released \cup {o} |-> IF x = o THEN 0 ELSE released[x]]
    /\ handles' = [x \in DOMAIN handles \cup {h} |->
                     IF x = h THEN [obj |-> o, views |-> 0] ELSE handles[x]]
    /\ lastOp' = [op |-> how, h |-> h, obj |-> o]

\* sign returns Ok(x509): X509::from_ptr(try!(cvt_p(ffi::X509_new())))
X509_from_sign ==
    /\ \E h \in HandleIds \ DOMAIN handles : \E o \in Objs \ DOMAIN refs :
          from_ptr_new(h, o, "sign")
    /\ UNCHANGED <<genVars, signVars, serialVars, verifyVars, gnVars, codecVars, now>>

\* X509::from_der: a handle on success, no handle when d2i_X509 returns null
X509_from_der ==
    /\ \/ \E h \in HandleIds \ DOMAIN handles : \E o \in Objs \ DOMAIN refs :
             from_ptr_new(h, o, "from_der")
       \/ /\ lastOp' = [op |-> "from_der_err"]
          /\ UNCHANGED <<refs, released, handles>>
    /\ UNCHANGED <<genVars, signVars, serialVars, verifyVars, gnVars, codecVars, now>>

\* X509::from_pem: a handle on success, no handle when PEM_read_bio_X509 fails
X509_from_pem ==
    /\ \/ \E h \in HandleIds \ DOMAIN handles : \E o \in Objs \ DOMAIN refs :
             from_ptr_new(h, o, "from_pem")
       \/ /\ lastOp' = [op |-> "from_pem_err"]
          /\ UNCHANGED <<refs, released, handles>>
    /\ UNCHANGED <<genVars, signVars, serialVars, verifyVars, gnVars, codecVars, now>>

\* a slip: the reference count is left alone
X509_up_ref_none(r, o) == r

\* compat::X509_up_ref: CRYPTO_add_lock(&mut (*x).references, 1, ..)
X509_up_ref(r, o) == [r EXCEPT ![o] = @ + 1]

\* ffi::X509_free: one reference less; the count after the call
X509_free_refs(r, o) == [r EXCEPT ![o] = @ - 1]

\* ffi::X509_free: the memory is released when the count is no longer positive
X509_free_released(r, rel, o) ==
    IF X509_free_refs(r, o)[o] <= 0 THEN [rel EXCEPT ![o] = @ + 1] ELSE rel

\* <X509 as Clone>::clone: up_ref, then a second handle on the same pointer
X509_clone ==
    /\ \E h \in DOMAIN handles : \E h2 \in HandleIds \ DOMAIN handles :
          LET o == handles[h].obj
          IN  /\ refs' = X509_up_ref(refs, o)
              /\ handles' = [x \in DOMAIN handles \cup {h2} |->
                               IF x = h2 THEN [obj |-> o, views |-> 0] ELSE handles[x]]
              /\ lastOp' = [op |-> "clone", h |-> h2, obj |-> o, before |-> refs[o]]
              /\ UNCHANGED released
    /\ UNCHANGED <<genVars, signVars, serialVars, verifyVars, gnVars, codecVars, now>>

\* <X509 as Deref>::deref: a view &X509Ref borrowed from handle h
X509_deref ==
    /\ \E h \in DOMAIN handles :
          /\ handles[h].views < MaxViews
          /\ handles' = [handles EXCEPT ![h].views = @ + 1]
          /\ lastOp' = [op |-> "deref", h |-> h, obj |-> handles[h].obj]
          /\ UNCHANGED <<refs, released>>
    /\ UNCHANGED <<genVars, signVars, serialVars, verifyVars, gnVars, codecVars, now>>

\* a view goes out of scope; nothing is released
X509Ref_end ==
    /\ \E h \in DOMAIN handles :
          /\ handles[h].views > 0
          /\ handles' = [handles EXCEPT ![h].views = @ - 1]
          /\ lastOp' = [op |-> "view_end", h |-> h, obj |-> handles[h].obj]
          /\ UNCHANGED <<refs, released>>
    /\ UNCHANGED <<genVars, signVars, serialVars, verifyVars, gnVars, codecVars, now>>

\* <X509 as Drop>::drop: X509_free(self.as_ptr()); the borrow checker rules out
\* dropping a handle that a view still borrows
X509_drop ==
    /\ \E h \in DOMAIN handles :
          LET o == handles[h].obj
          IN  /\ handles[h].views = 0
              /\ refs' = X509_free_refs(refs, o)
              /\ released' = X509_free_released(refs, released, o)
              /\ handles' = [x \in DOMAIN handles \ {h} |-> handles[x]]
              /\ lastOp' = [op |-> "drop", h |-> h, obj |-> o, before |-> refs[o],
                            last |-> OwnersOf(o) = {h}]
    /\ UNCHANGED <<genVars, signVars, serialVars, verifyVars, gnVars, codecVars, now>>

NextHandle ==
    \/ X509_from_sign
    \/ X509_from_der
    \/ X509_from_pem
    \/ X509_clone
    \/ X509_deref
    \/ X509Ref_end
    \/ X509_drop

SpecHandle == Init /\ [][NextHandle]_vars

-----------------------------------------------------------------------------
(* X509VerifyError::from_raw and X509StoreContext::error *)

\* ffi::X509_V_OK
X509_V_OK == 0

\* the raw codes are driven over -MaxCode..MaxCode
MaxCode == 8

Codes == (0 - MaxCode)..MaxCode

None == [some |-> FALSE]
Some(v) == [some |-> TRUE, val |-> v]

\* a slip: the test for the OK code is inverted
from_raw_inverted(err) == IF err # X509_V_OK THEN None ELSE Some([code |-> err])

\* X509VerifyError::from_raw; Some holds the X509VerifyError, a wrapped c_long
from_raw(err) == IF err = X509_V_OK THEN None ELSE Some([code |-> err])

\* X509VerifyError::as_raw
as_raw(e) == e.code

\* the native verification stores an error code in the context
X509_STORE_CTX_set_error ==
    /\ \E c \in Codes : ctxError' = c
    /\ UNCHANGED veOut
    /\ UNCHANGED <<genVars, signVars, serialVars, handleVars, gnVars, codecVars, now>>

\* X509StoreContext::error: from_raw(X509_STORE_CTX_get_error(self.ctx) as c_long);
\* widening a c_int to a c_long keeps its value
X509StoreContext_error ==
    /\ veOut' = [called |-> TRUE, arg |-> ctxError, value |-> from_raw(ctxError)]
    /\ UNCHANGED ctxError
    /\ UNCHANGED <<genVars, signVars, serialVars, handleVars, gnVars, codecVars, now>>

NextVerify == X509_STORE_CTX_set_error \/ X509StoreContext_error

SpecVerify == Init /\ [][NextVerify]_vars

-----------------------------------------------------------------------------
(* GeneralNames, GeneralNamesIter, GeneralName *)

\* ffi::GEN_DNS, ffi::GEN_IPADD
GEN_DNS == 2
GEN_IPADD == 7

\* a tag with no accessor (rfc822Name)
OtherTags == {1}

\* longest SAN stack, and number of iter() calls on one GeneralNames
MaxSan == 2
MaxIters == 2

\* byte strings of SAN entries: "a.b", e-acute, a cut-off 2-byte sequence, a
\* byte that never occurs in UTF-8, the empty string, two IPv4 addresses
TextAB == <<97, 46, 98>>
TextEacute == <<195, 169>>
BytesCutOff == <<195>>
BytesFF == <<255, 97>>
Ip192 == <<192, 168, 0, 1>>
Ip127 == <<127, 0, 0, 1>>

\* the GENERAL_NAMEs the decoded stack is driven to hold
SanEntries ==
    {[type_ |-> GEN_DNS, d |-> TextAB], [type_ |-> GEN_DNS, d |-> TextEacute],
     [type_ |-> GEN_DNS, d |-> BytesCutOff], [type_ |-> GEN_DNS, d |-> BytesFF],
     [type_ |-> GEN_DNS, d |-> <<>>], [type_ |-> GEN_IPADD, d |-> Ip192],
     [type_ |-> GEN_IPADD, d |-> Ip127], [type_ |-> CHOOSE t \in OtherTags : TRUE, d |-> TextAB]}

SanStacks == UNION {[1..n -> SanEntries] : n \in 0..MaxSan}

\* a continuation byte 0x80..0xBF
IsCont(b) == b >= 128 /\ b <= 191

\* str::from_utf8 accepts exactly the well-formed UTF-8 byte sequences
RECURSIVE utf8_valid(_)
utf8_valid(bs) ==
    IF bs = <<>> THEN TRUE
    ELSE LET b == bs[1]
             n == Len(bs)
             rest(k) == SubSeq(bs, k + 1, n)
         IN  IF b <= 127 THEN utf8_valid(rest(1))
             ELSE IF b >= 194 /\ b <= 223
             THEN n >= 2 /\ IsCont(bs[2]) /\ utf8_valid(rest(2))
             ELSE IF b >= 224 /\ b <= 239
             THEN /\ n >= 3
                  /\ IsCont(bs[2]) /\ IsCont(bs[3])
                  /\ (b = 224 => bs[2] >= 160)
                  /\ (b = 237 => bs[2] <= 159)
                  /\ utf8_valid(rest(3))
             ELSE IF b >= 240 /\ b <= 244
             THEN /\ n >= 4
                  /\ IsCont(bs[2]) /\ IsCont(bs[3]) /\ IsCont(bs[4])
                  /\ (b = 240 => bs[2] >= 144)
                  /\ (b = 244 => bs[2] <= 143)
                  /\ utf8_valid(rest(4))
             ELSE FALSE

\* GeneralNames::len
GeneralNames_len(stack) == Len(stack)

\* GeneralNames::_get: reads slot idx of the stack's data, whatever idx is
GeneralNames__get(stack, idx) ==
    IF idx < Len(stack) THEN [kind |-> "name", name |-> stack[idx + 1]]
    ELSE [kind |-> "out of bounds"]

\* a slip: the assertion lets idx = len() through
GeneralNames_get_le(stack, idx) ==
    IF idx <= GeneralNames_len(stack) THEN GeneralNames__get(stack, idx)
    ELSE [kind |-> "panic"]

\* GeneralNames::get: assert!(idx < self.len()), then _get
GeneralNames_get(stack, idx) ==
    IF idx < GeneralNames_len(stack) THEN GeneralNames__get(stack, idx)
    ELSE [kind |-> "panic"]

\* a slip: the bytes are taken as text without the check (from_utf8_unchecked)
dnsname_unchecked(name) ==
    IF name.type_ # GEN_DNS THEN None ELSE Some(name.d)

\* GeneralName::dnsname
dnsname(name) ==
    IF name.type_ # GEN_DNS THEN None
    ELSE IF utf8_valid(name.d) THEN Some(name.d) ELSE None

\* GeneralName::ipaddress
ipaddress(name) ==
    IF name.type_ # GEN_IPADD THEN None ELSE Some(name.d)

\* X509Ref::subject_alt_names: None when X509_get_ext_d2i returns null
subject_alt_names ==
    /\ ~gnLive
    /\ \/ \E stack \in SanStacks :
             /\ gnStack' = stack /\ gnLive' = TRUE
             /\ gnOut' = [op |-> "subject_alt_names", some |-> TRUE]
       \/ /\ gnStack' = <<>> /\ gnLive' = FALSE
          /\ gnOut' = [op |-> "subject_alt_names", some |-> FALSE]
    /\ UNCHANGED <<gnIdx, gnYield, gnIters>>
    /\ UNCHANGED <<genVars, signVars, serialVars, handleVars, verifyVars, codecVars, now>>

\* the user calls get(idx)
get ==
    /\ gnLive
    /\ \E idx \in 0..(MaxSan + 1) :
          gnOut' = [op |-> "get", idx |-> idx, out |-> GeneralNames_get(gnStack, idx)]
    /\ UNCHANGED <<gnStack, gnLive, gnIdx, gnYield, gnIters>>
    /\ UNCHANGED <<genVars, signVars, serialVars, handleVars, verifyVars, codecVars, now>>

\* GeneralNames::iter: a new iterator, replacing the one in use
iter ==
    /\ gnLive
    /\ gnIters < MaxIters
    /\ gnIdx' = 0
    /\ gnYield' = <<>>
    /\ gnIters' = gnIters + 1
    /\ gnOut' = [op |-> "iter"]
    /\ UNCHANGED <<gnStack, gnLive>>
    /\ UNCHANGED <<genVars, signVars, serialVars, handleVars, verifyVars, codecVars, now>>

\* <GeneralNamesIter as Iterator>::next
next ==
    /\ gnLive
    /\ gnIters > 0
    /\ IF gnIdx < GeneralNames_len(gnStack)
       THEN LET name == GeneralNames_get(gnStack, gnIdx)
            IN  /\ gnIdx' = gnIdx + 1
                /\ gnYield' = Append(gnYield, name)
                /\ gnOut' = [op |-> "next", out |-> Some(name)]
       ELSE /\ gnOut' = [op |-> "next", out |-> None]
            /\ UNCHANGED <<gnIdx, gnYield>>
    /\ UNCHANGED <<gnStack, gnLive, gnIters>>
    /\ UNCHANGED <<genVars, signVars, serialVars, handleVars, verifyVars, codecVars, now>>

\* the user calls dnsname() on the entry get(i) returned
call_dnsname ==
    /\ gnLive
    /\ \E i \in 0..(Len(gnStack) - 1) :
          LET name == GeneralNames_get(gnStack, i).name
          IN  gnOut' = [op |-> "dnsname", name |-> name, out |-> dnsname(name)]
    /\ UNCHANGED <<gnStack, gnLive, gnIdx, gnYield, gnIters>>
    /\ UNCHANGED <<genVars, signVars, serialVars, handleVars, verifyVars, codecVars, now>>

\* the user calls ipaddress() on the entry get(i) returned
call_ipaddress ==
    /\ gnLive
    /\ \E i \in 0..(Len(gnStack) - 1) :
          LET name == GeneralNames_get(gnStack, i).name
          IN  gnOut' = [op |-> "ipaddress", name |-> name, out |-> ipaddress(name)]
    /\ UNCHANGED <<gnStack, gnLive, gnIdx, gnYield, gnIters>>
    /\ UNCHANGED <<genVars, signVars, serialVars, handleVars, verifyVars, codecVars, now>>

\* <GeneralNames as Drop>::drop; iterators and entries cannot outlive it
GeneralNames_drop ==
    /\ gnLive
    /\ gnStack' = <<>> /\ gnLive' = FALSE
    /\ gnIdx' = 0
    /\ gnYield' = <<>>
    /\ gnIters' = 0
    /\ gnOut' = [op |-> "none"]
    /\ UNCHANGED <<genVars, signVars, serialVars, handleVars, verifyVars, codecVars, now>>

NextNames ==
    \/ subject_alt_names
    \/ get
    \/ iter
    \/ next
    \/ call_dnsname
    \/ call_ipaddress
    \/ GeneralNames_drop

SpecNames == Init /\ [][NextNames]_vars

-----------------------------------------------------------------------------
(* sign under a running clock: the validity period *)

\* seconds the clock advances at most
MaxClock == 2

\* a second passes; this can happen between any two steps of sign
clock_tick ==
    /\ now < MaxClock
    /\ now' = now + 1
    /\ UNCHANGED <<genVars, signVars, serialVars, handleVars, verifyVars, gnVars, codecVars>>

\* a generator with the default name and no extension, in real time
NextValidity ==
    \/ set_valid_period
    \/ sign_call
    \/ X509_new
    \/ X509_set_version
    \/ sign_random_serial
    \/ ASN1_INTEGER_set
    \/ days_from_now_0
    \/ days_from_now_days
    \/ X509_set_notBefore
    \/ X509_set_notAfter
    \/ X509_set_pubkey
    \/ X509_get_subject_name
    \/ add_name_internal
    \/ X509_set_issuer_name
    \/ X509_sign
    \/ drop_result
    \/ clock_tick

SpecValidity == Init /\ [][NextValidity]_vars

-----------------------------------------------------------------------------
(* Serialization, parsing and the accessors that return a Result,
   for X509Ref / X509 and X509Req *)

\* certificates, requests and byte buffers the operations are called on
MaxCodecArgs == 3

CodecArgs == 1..MaxCodecArgs

\* a provider call whose result goes through try! / cvt / cvt_p / an if
checked(call) == [call |-> call, checked |-> TRUE]

\* a provider call whose return value is discarded
unchecked(call) == [call |-> call, checked |-> FALSE]

\* the provider calls of each operation, in order
X509Ref_to_pem_calls == <<checked("MemBio::new"), checked("PEM_write_bio_X509")>>
X509Ref_to_der_calls == <<checked("MemBio::new"), unchecked("i2d_X509_bio")>>
X509Ref_fingerprint_calls == <<checked("X509_digest")>>
X509Ref_public_key_calls == <<checked("X509_get_pubkey")>>
X509_from_der_calls == <<checked("d2i_X509")>>
X509_from_pem_calls == <<checked("MemBioSlice::new"), checked("PEM_read_bio_X509")>>
X509Req_from_pem_calls == <<checked("MemBioSlice::new"), checked("PEM_read_bio_X509_REQ")>>
X509Req_to_pem_calls == <<checked("MemBio::new"), checked("PEM_write_bio_X509_REQ")>>
X509Req_to_der_calls == <<checked("MemBio::new"), unchecked("i2d_X509_REQ_bio")>>

CodecCalls(op) ==
    CASE op = "X509Ref::to_pem" -> X509Ref_to_pem_calls
      [] op = "X509Ref::to_der" -> X509Ref_to_der_calls
      [] op = "X509Ref::fingerprint" -> X509Ref_fingerprint_calls
      [] op = "X509Ref::public_key" -> X509Ref_public_key_calls
      [] op = "X509::from_der" -> X509_from_der_calls
      [] op = "X509::from_pem" -> X509_from_pem_calls
      [] op = "X509Req::from_pem" -> X509Req_from_pem_calls
      [] op = "X509Req::to_pem" -> X509Req_to_pem_calls
      [] op = "X509Req::to_der" -> X509Req_to_der_calls

\* the user calls operation op on arg
codec_enter(op) ==
    /\ coOp = "none"
    /\ \E arg \in CodecArgs : coArg' = arg
    /\ coOp' = op
    /\ coPos' = 0
    /\ coCalls' = <<>>
    /\ coRes' = NoResult
    /\ UNCHANGED <<genVars, signVars, serialVars, handleVars, verifyVars, gnVars, now>>

X509Ref_to_pem == codec_enter("X509Ref::to_pem")
X509Ref_to_der == codec_enter("X509Ref::to_der")
X509Ref_fingerprint == codec_enter("X509Ref::fingerprint")
X509Ref_public_key == codec_enter("X509Ref::public_key")
X509_from_der_call == codec_enter("X509::from_der")
X509_from_pem_call == codec_enter("X509::from_pem")
X509Req_from_pem == codec_enter("X509Req::from_pem")
X509Req_to_pem == codec_enter("X509Req::to_pem")
X509Req_to_der == codec_enter("X509Req::to_der")

\* the next provider call of the running operation succeeds
provider_ok ==
    /\ coOp # "none" /\ coRes = NoResult
    /\ coPos < Len(CodecCalls(coOp))
    /\ coCalls' = Append(coCalls, <<CodecCalls(coOp)[coPos + 1].call, TRUE>>)
    /\ coPos' = coPos + 1
    /\ UNCHANGED <<coOp, coArg, coRes>>
    /\ UNCHANGED <<genVars, signVars, serialVars, handleVars, verifyVars, gnVars, now>>

\* the next provider call reports failure: a checked call makes the operation
\* return Err at once, an unchecked one lets it go on
provider_fail ==
    /\ coOp # "none" /\ coRes = NoResult
    /\ coPos < Len(CodecCalls(coOp))
    /\ LET c == CodecCalls(coOp)[coPos + 1]
       IN  /\ coCalls' = Append(coCalls, <<c.call, FALSE>>)
           /\ coPos' = coPos + 1
           /\ coRes' = IF c.checked THEN Err(c.call) ELSE coRes
    /\ UNCHANGED <<coOp, coArg>>
    /\ UNCHANGED <<genVars, signVars, serialVars, handleVars, verifyVars, gnVars, now>>

\* all calls are made and none returned early: Ok(..)
codec_ok ==
    /\ coOp # "none" /\ coRes = NoResult
    /\ coPos = Len(CodecCalls(coOp))
    /\ coRes' = Ok(coOp)
    /\ UNCHANGED <<coOp, coArg, coPos, coCalls>>
    /\ UNCHANGED <<genVars, signVars, serialVars, handleVars, verifyVars, gnVars, now>>

\* the caller takes the returned value
codec_done ==
    /\ coRes # NoResult
    /\ coOp' = "none"
    /\ coArg' = 0
    /\ coPos' = 0
    /\ coCalls' = <<>>
    /\ coRes' = NoResult
    /\ UNCHANGED <<genVars, signVars, serialVars, handleVars, verifyVars, gnVars, now>>

NextCodec ==
    \/ X509Ref_to_pem
    \/ X509Ref_to_der
    \/ X509Ref_fingerprint
    \/ X509Ref_public_key
    \/ X509_from_der_call
    \/ X509_from_pem_call
    \/ X509Req_from_pem
    \/ X509Req_to_pem
    \/ X509Req_to_der
    \/ provider_ok
    \/ provider_fail
    \/ codec_ok
    \/ codec_done

SpecCodec == Init /\ [][NextCodec]_vars

-----------------------------------------------------------------------------
(* Reading the log of a call *)

ReqSteps == {"X509_to_X509_REQ", "X509_REQ_add_extensions", "X509_REQ_sign"}

\* the provider calls made by sign, and those made by request after it
SignLog == SelectSeq(log, LAMBDA e : e[1] \notin ReqSteps)
ReqLog == SelectSeq(log, LAMBDA e : e[1] \in ReqSteps)

Repeat(n, steps) == [i \in 1..(n * Len(steps)) |-> steps[((i - 1) % Len(steps)) + 1]]

\* the steps of a sign call that succeeds, in order, for the generator as it is
ExpectedSignSteps ==
    <<"X509_new", "X509_set_version", "rand_bytes", "ASN1_INTEGER_set",
      "days_from_now_0", "days_from_now_days", "X509_set_notBefore",
      "X509_set_notAfter", "X509_set_pubkey", "X509_get_subject_name">>
    \o Repeat(IF supplied = <<>> THEN 1 ELSE Len(supplied), <<"X509_NAME_add_entry_by_txt">>)
    \o <<"X509_set_issuer_name">>
    \o Repeat(Len(firstAdded), <<"X509V3_EXT_conf", "X509_add_ext">>)
    \o <<"X509_sign">>

\* the steps of request after a sign that succeeded
ExpectedReqSteps ==
    <<"X509_to_X509_REQ">>
    \o (IF firstAdded # <<>> THEN <<"X509_REQ_add_extensions">> ELSE <<>>)
    \o <<"X509_REQ_sign">>

\* l is a run of the steps: they were made in order, all succeeded but possibly
\* the last one made, and none was made after a failure
IsRun(l, steps) ==
    /\ Len(l) <= Len(steps)
    /\ \A i \in 1..Len(l) : l[i][1] = steps[i] /\ (i < Len(l) => l[i][2])

Complete(l, steps) == Len(l) = Len(steps) /\ \A i \in 1..Len(l) : l[i][2]

Failed(l) == \E i \in 1..Len(l) : ~l[i][2]

-----------------------------------------------------------------------------
(* C1: after any sequence of add_extension / add_extensions calls the
   collection never holds two extensions of the same ExtensionType. *)
C1_NoDuplicateTypes ==
    \A i, j \in 1..Len(extensions) :
        i # j => get_type(extensions[i]) # get_type(extensions[j])

\* a type already present was added again, next to other types
C1_Witness ==
    /\ lastAdd.called /\ lastAdd.existed
    /\ Len(extensions) = Cardinality(ExtTypes)

(* C2: add of a type already present replaces the value at that type's
   position, leaving the length and every other position unchanged; add of a
   new type appends; so the iteration order is the order in which each
   distinct type was first added. *)
C2_ReplaceInPlace ==
    [][ /\ lastAdd'.called =>
            LET ext == lastAdd'.ext
                present == \E i \in 1..Len(extensions) :
                               get_type(extensions[i]) = get_type(ext)
            IN  IF present
                THEN /\ Len(extensions') = Len(extensions)
                     /\ \A i \in 1..Len(extensions) :
                            extensions'[i] =
                                IF get_type(extensions[i]) = get_type(ext)
                                THEN ext ELSE extensions[i]
                ELSE extensions' = Append(extensions, ext)
        /\ [i \in 1..Len(extensions') |-> get_type(extensions'[i])] = firstAdded'
      ]_vars

\* the middle one of three extensions was replaced by a new value
C2_Witness ==
    /\ lastAdd.called /\ lastAdd.existed
    /\ Len(extensions) = 3
    /\ extensions[2] = lastAdd.ext
    /\ extensions[2].val = 2 /\ extensions[1].val = 1 /\ extensions[3].val = 1

(* C5: sign returns an owned certificate only if every step succeeded; a
   failing step makes sign return the error of that step, none of the later
   steps is made and no certificate is returned. *)
C5_SignAllOrNothing ==
    /\ IsRun(SignLog, ExpectedSignSteps)
    /\ signRes.status = "Ok" =>
          /\ Complete(SignLog, ExpectedSignSteps)
          /\ mode = "sign" => cert.live /\ result = Ok("X509") /\ pc = "done"
    /\ Failed(SignLog) =>
          /\ signRes = Err(SignLog[Len(SignLog)][1])
          /\ cert = NoCert
          /\ pc = "done"
          /\ mode = "sign" => result = signRes
    /\ signRes.status = "Err" => Failed(SignLog)
    /\ cert.live /\ cert.signature # NULL => signRes.status = "Ok"

\* sign failed in the middle, at the public key, and sign succeeded
C5_Witness ==
    /\ mode = "sign" /\ pc = "done"
    /\ signRes = Err("X509_set_pubkey")
    /\ Len(supplied) = 2 /\ Len(firstAdded) = 2

(* C6: the subject-name entries sign adds are the single default entry
   ("CN", "rust-openssl") when none was supplied, and otherwise the supplied
   entries in the order add_name / add_names supplied them, without the
   default entry. *)
C6_SubjectEntries ==
    LET wanted == IF supplied = <<>> THEN <<<<"CN", "rust-openssl">>>> ELSE supplied
    IN  cert.live =>
          /\ Len(cert.subject) <= Len(wanted)
          /\ \A i \in 1..Len(cert.subject) : cert.subject[i] = wanted[i]
          /\ cert.signature # NULL => cert.subject = wanted

\* a certificate was signed with two different supplied entries
C6_Witness ==
    /\ mode = "sign" /\ result.status = "Ok" /\ cert.live
    /\ Len(supplied) = 2 /\ supplied[1] # supplied[2]
    /\ cert.subject = supplied

(* C7: request runs sign first; when sign fails request returns the same
   error and makes no CSR step; when sign succeeds the CSR steps are, in
   order, the conversion, the copy of the extensions (only when the
   certificate has any) and the CSR signature, and a CSR is returned only if
   all of them succeeded. *)
C7_RequestOrder ==
    /\ log = SignLog \o ReqLog
    /\ mode = "sign" => ReqLog = <<>> /\ req = NoReq
    /\ mode = "request" =>
          /\ signRes.status \in {"Err", "Panic"} =>
                result = signRes /\ ReqLog = <<>> /\ req = NoReq
          /\ ReqLog # <<>> =>
                signRes.status = "Ok" /\ Complete(SignLog, ExpectedSignSteps)
          /\ IsRun(ReqLog, ExpectedReqSteps)
          /\ Failed(ReqLog) =>
                result = Err(ReqLog[Len(ReqLog)][1]) /\ req = NoReq /\ pc = "done"
          /\ result.status = "Ok" =>
                /\ Complete(ReqLog, ExpectedReqSteps)
                /\ result = Ok("X509Req")
                /\ req.live /\ req.signature # NULL
                /\ req.exts = IF extensions = <<>> THEN NULL ELSE extensions
          /\ req.live /\ req.signature # NULL => result.status = "Ok"

\* a CSR with copied extensions was returned
C7_Witness ==
    /\ mode = "request" /\ result = Ok("X509Req")
    /\ Len(extensions) = 2 /\ req.exts = extensions

\* request returned the error of a failed sign
C7_WitnessSignFailed ==
    /\ mode = "request" /\ pc = "done" /\ result = Err("X509_sign")

(* C3: for every buffer the random source can return, random_serial returns
   a value that is strictly positive. *)
C3_SerialPositive ==
    rsOut.status = "Ok" => rsOut.val > 0

(* C4: over any sequence of creating owned handles (sign, from_der,
   from_pem), cloning, borrowing views and dropping: a clone adds one to the
   object's reference count and a drop takes one away, the object is released
   exactly once and only by the drop of its last owned handle, and no live
   owned handle refers to a released object. *)
C4_HandleOwnership ==
    /\ \A o \in DOMAIN refs :
          /\ refs[o] = Cardinality(OwnersOf(o))
          /\ released[o] = IF OwnersOf(o) = {} THEN 1 ELSE 0
    /\ \A h \in DOMAIN handles :
          handles[h].obj \in DOMAIN refs /\ released[handles[h].obj] = 0
    /\ lastOp.op = "clone" => refs[lastOp.obj] = lastOp.before + 1
    /\ lastOp.op = "drop" =>
          /\ refs[lastOp.obj] = lastOp.before - 1
          /\ released[lastOp.obj] = IF lastOp.last THEN 1 ELSE 0

\* an object made by sign was cloned twice, one clone was dropped with views
\* of another alive, and a from_der object was released by its last drop
C4_Witness ==
    /\ \E o \in DOMAIN refs : refs[o] = 2 /\ \E h \in OwnersOf(o) : handles[h].views = 1
    /\ lastOp.op = "drop" /\ lastOp.last /\ released[lastOp.obj] = 1
    /\ \E o \in DOMAIN refs : released[o] = 0

(* C8: from_raw(c) is None exactly when c is X509_V_OK; for every other c it
   is Some(e) with e.as_raw() = c. *)
C8_FromRaw ==
    veOut.called =>
        /\ (veOut.value = None) <=> (veOut.arg = X509_V_OK)
        /\ veOut.arg # X509_V_OK =>
              veOut.value.some /\ as_raw(veOut.value.val) = veOut.arg

\* error() was called with the OK code stored after a call with another code
C8_Witness ==
    /\ veOut.called /\ veOut.arg < 0 /\ veOut.value.some
    /\ ctxError = X509_V_OK

(* C9: get(idx) panics exactly when idx >= len() and otherwise returns the
   entry at position idx, never reading the stack out of bounds; an iterator
   yields the len() entries in index order without panicking, and a fresh
   iter() starts again at index 0. *)
C9_GetAndIter ==
    /\ gnOut.op = "get" =>
          /\ (gnOut.out.kind = "panic") <=> (gnOut.idx >= Len(gnStack))
          /\ gnOut.idx < Len(gnStack) =>
                gnOut.out = [kind |-> "name", name |-> gnStack[gnOut.idx + 1]]
    /\ gnOut.op = "iter" => gnIdx = 0 /\ gnYield = <<>>
    /\ gnIters > 0 =>
          /\ gnIdx <= Len(gnStack)
          /\ gnYield = [i \in 1..gnIdx |-> [kind |-> "name", name |-> gnStack[i]]]
    /\ gnOut.op = "next" =>
          IF gnOut.out.some
          THEN gnOut.out.val = [kind |-> "name", name |-> gnStack[gnIdx]]
          ELSE Len(gnYield) = Len(gnStack)

\* a second iterator over two different entries ran to its end
C9_Witness ==
    /\ gnIters = 2 /\ gnOut.op = "next" /\ ~gnOut.out.some
    /\ Len(gnStack) = 2 /\ gnStack[1] # gnStack[2] /\ Len(gnYield) = 2

\* byte strings known to be valid text, and known not to be
KnownText == {TextAB, TextEacute, Ip127, <<>>}
KnownNotText == {BytesCutOff, BytesFF, Ip192}

(* C10: dnsname() is None unless the tag is DNSName, and None for a DNSName
   whose bytes are not valid text; ipaddress() is Some exactly when the tag is
   IPAddress and then holds the entry's bytes unchanged; at most one of the
   two is Some for any entry. *)
C10_Accessors ==
    /\ gnOut.op = "dnsname" =>
          /\ gnOut.out.some => gnOut.name.type_ = GEN_DNS
          /\ gnOut.name.d \in KnownNotText => gnOut.out = None
          /\ gnOut.name.type_ = GEN_DNS /\ gnOut.name.d \in KnownText =>
                gnOut.out = Some(gnOut.name.d)
    /\ gnOut.op = "ipaddress" =>
          /\ gnOut.out.some <=> gnOut.name.type_ = GEN_IPADD
          /\ gnOut.out.some => gnOut.out.val = gnOut.name.d
    /\ gnLive =>
          \A i \in 1..Len(gnStack) :
              ~(dnsname(gnStack[i]).some /\ ipaddress(gnStack[i]).some)

\* dnsname() was called on a DNSName entry whose bytes are not valid text
C10_Witness ==
    /\ gnOut.op = "dnsname" /\ gnOut.name.type_ = GEN_DNS
    /\ gnOut.name.d \in KnownNotText /\ gnOut.out = None
    /\ \E i \in 1..Len(gnStack) : gnStack[i].type_ = GEN_IPADD /\ gnStack[i].d = Ip192

(* C11: for every operation that returns a Result, a provider call that
   reports failure makes the operation return an error: no operation
   returns Ok after one of its provider calls failed. *)
C11_NoOkAfterFailure ==
    coRes.status = "Ok" => \A i \in 1..Len(coCalls) : coCalls[i][2]

(* C12: every certificate returned by sign has notAfter equal to notBefore
   plus the configured day count, and therefore notBefore <= notAfter,
   however the clock advances during the call. *)
C12_ValidityPeriod ==
    (pc = "done" /\ mode = "sign" /\ signRes.status = "Ok") =>
        /\ cert.notAfter = cert.notBefore + days * SecondsPerDay
        /\ cert.notBefore <= cert.notAfter

\* positions of the log at which step was called
LogPositions(step) == {i \in 1..Len(log) : log[i][1] = step}

\* the certificate under construction carries the first extIdx extensions of
\* the collection, in the collection's order
AttachedInOrder ==
    (cert.live /\ cert.exts # NULL) =>
        /\ cert.exts = SubSeq(extensions, 1, extIdx)
        /\ Cardinality({get_type(cert.exts[i]) : i \in 1..Len(cert.exts)}) = Len(cert.exts)
        /\ cert.issuer # NULL /\ cert.issuer = cert.subject
        /\ \A i \in LogPositions("X509_add_ext") :
               \E j \in 1..(i - 1) : log[j] = <<"X509_set_issuer_name", TRUE>>

\* a signed certificate carries every extension of the collection, and the
\* signature step comes after every attachment
SignedAfterAttachments ==
    (cert.live /\ cert.signature # NULL) =>
        /\ extIdx = Len(extensions)
        /\ cert.exts = IF extensions = <<>> THEN NULL ELSE extensions
        /\ \A i \in LogPositions("X509_add_ext") :
               \A j \in LogPositions("X509_sign") : i < j

\* an extension is attached by appending the collection's next element
AttachStep ==
    (cert.live /\ cert'.live /\ cert'.exts # cert.exts) =>
        /\ cert.signature = NULL
        /\ extIdx' = extIdx + 1
        /\ cert'.exts = (IF cert.exts = NULL THEN <<>> ELSE cert.exts)
                            \o <<extensions[extIdx + 1]>>

\* once signed, the certificate is not modified any more
SignatureIsLast ==
    (cert.live /\ cert.signature # NULL /\ cert'.live) => cert' = cert

(* C13: within one sign call the extensions are attached in the collection's
   iteration order, one per distinct type, all after the issuer name was set
   equal to the subject name; the signature step comes after the last
   attachment and is the last modification of the certificate. *)
C13_AttachOrder ==
    /\ [](AttachedInOrder /\ SignedAfterAttachments)
    /\ [][AttachStep /\ SignatureIsLast]_vars

\* sign returned a certificate that carries two extensions
C13_Witness ==
    /\ pc = "done" /\ mode = "sign" /\ signRes.status = "Ok"
    /\ Len(extensions) >= 2
    /\ cert.exts = extensions
    /\ cert.signature # NULL

\* the assignment step, X509_set_notBefore or X509_set_notAfter, succeeded
Assigned(step) == \E i \in 1..Len(log) : log[i] = <<step, TRUE>>

\* the releases of one time value by the generator, as far as sign has come
ReleasedRight(t, step) ==
    /\ t.freed <= 1
    /\ ~t.made => t.freed = 0
    /\ Assigned(step) => t.freed = 0 /\ ~t.owned
    /\ (t.made /\ ~Assigned(step)) =>
           IF signRes = NoResult THEN t.owned /\ t.freed = 0
           ELSE ~t.owned /\ t.freed = 1

(* C14: on every path through sign each of the two time values is released
   by the generator exactly once if its assignment into the certificate did
   not succeed, never once the assignment succeeded, and never twice. *)
C14_TimeValuesReleased ==
    /\ ReleasedRight(not_before, "X509_set_notBefore")
    /\ ReleasedRight(not_after, "X509_set_notAfter")

\* sign failed in X509_set_notAfter: not_before went to the certificate,
\* not_after was released by the generator
C14_Witness ==
    /\ pc = "done"
    /\ signRes = Err("X509_set_notAfter")
    /\ not_before.made /\ not_before.freed = 0
    /\ not_after.made /\ not_after.freed = 1

\* the unsigned big-endian integer formed from a byte sequence
RECURSIVE BigEndian(_)
BigEndian(bytes) ==
    IF bytes = <<>> THEN 0
    ELSE BigEndian(SubSeq(bytes, 1, Len(bytes) - 1)) * 256 + bytes[Len(bytes)]

(* C15: random_serial returns floor(U / 2) for the unsigned big-endian
   integer U of the buffer the random-byte provider filled, a value in
   [0, 2^(w-1) - 1]; when the provider fails it returns that error and no
   serial, without running the loop. *)
C15_SerialValue ==
    /\ rsOut.status = "Ok" =>
           /\ Len(rsBytes) = LongBytes
           /\ rsOut.val = BigEndian(rsBytes) \div 2
           /\ rsOut.val >= 0
           /\ rsOut.val <= Pow2(LongBits - 1) - 1
    /\ rsOut.status = "Err" =>
           /\ rsOut = Err("rand_bytes")
           /\ rsIdx = 0 /\ rsRes = 0
    /\ rsPc = "done" => rsOut.status \in {"Ok", "Err"}

\* a buffer with the high bit set gave a positive serial
C15_Witness ==
    /\ rsOut.status = "Ok"
    /\ rsBytes[1] >= 128
    /\ rsOut.val >= Pow2(LongBits - 2)

\* the index map and the vector describe the same collection
IndexesAgree ==
    /\ DOMAIN indexes = {get_type(extensions[i]) : i \in 1..Len(extensions)}
    /\ Cardinality(DOMAIN indexes) = Len(extensions)
    /\ \A t \in DOMAIN indexes :
           /\ indexes[t] \in 0..(Len(extensions) - 1)
           /\ get_type(extensions[indexes[t] + 1]) = t

(* C16: in every reachable state of Extensions the index map and the vector
   agree: the keys are exactly the types stored, there are as many keys as
   elements, and indexes[t] is a valid position holding an extension of
   type t; no step makes the vector shorter. *)
C16_IndexesAgree ==
    /\ []IndexesAgree
    /\ [][Len(extensions') >= Len(extensions)]_vars

\* every type is stored, and the last add replaced an extension that was not
\* the last element
C16_Witness ==
    /\ Len(extensions) = Cardinality(ExtTypes)
    /\ lastAdd.called /\ lastAdd.existed
    /\ indexes[get_type(lastAdd.ext)] < Len(extensions) - 1
    /\ extensions[indexes[get_type(lastAdd.ext)] + 1] = lastAdd.ext

=============================================================================
